---- MODULE Spec2Model ----
(***************************************************************************)
(* enmem.h: a typed facade (ennew, ennew0, ennewa, ennewa0, enrealloc,     *)
(* enresize, enfree) over the raw allocator (EN_MALLOC, EN_CALLOC,         *)
(* EN_REALLOC, EN_FREE), with the overflow check of size * nmemb.          *)
(*                                                                         *)
(* size_t is modelled with 2 * HalfBits bits.  The heap is a set of live   *)
(* addresses with the byte size of each block.  The caller (enmem.c) holds *)
(* handles (its variables x, y).  Every facade function is an operator     *)
(* from an allocator state to the set of outcomes [st, ret] it can have:   *)
(* the raw allocator may fail at any call, may move a block on realloc,    *)
(* and a free of a block that is not live is undefined behaviour, which is *)
(* either detected (the process aborts) or corrupts the free list.         *)
(***************************************************************************)
EXTENDS Integers, Sequences, FiniteSets

\* ---- bounds ----
HalfBits == 2
NAddr == 2
NHandles == 2

\* ---- program constants ----
NULL == 0
ENOMEM == 12

RECURSIVE Pow2(_)
Pow2(n) == IF n = 0 THEN 1 ELSE 2 * Pow2(n - 1)

\* size_t has sizeof(size_t) * 8 = 2 * HalfBits bits
SIZE_MAX == Pow2(2 * HalfBits) - 1
\* #define EN_NO_OVERFLOW (((size_t) 1) << (sizeof(size_t) * 4))
EN_NO_OVERFLOW == Pow2(HalfBits)

SizeT == 0..SIZE_MAX
Addr == 1..NAddr
Handles == 1..NHandles

\* sizeof(T) of the element type the caller uses (int)
TypeSizes == {4}

\* the element counts the caller asks for with a type of the given size:
\* none, one, the largest that fits and the first that does not (enmem.c)
Counts(size) == {0, 1, SIZE_MAX \div size, (SIZE_MAX \div size) + 1} \cap SizeT

VARIABLES
  builtin,   \* build configuration: EN_MUL_OVERFLOW is defined
  live,      \* the addresses of the blocks the raw allocator has handed out
  bsize,     \* the byte size of each live block (0 when not live)
  dup,       \* addresses a double free has put on the free list twice
  errno,     \* the process-wide errno
  aborted,   \* the allocator detected heap corruption and aborted the process
  handle,    \* the caller's pointer variables
  last       \* the caller's last statement: arguments, result and raw calls made
             \* (rawret, rawerrno: what the last raw call returned and the
             \* errno it left; the errno at entry when no raw call was made)

vars == <<builtin, live, bsize, dup, errno, aborted, handle, last>>

\* ---- size computation ----

\* size * nmemb in size_t arithmetic
WrapMul(size, nmemb) == (size * nmemb) % (SIZE_MAX + 1)

\* __builtin_mul_overflow(size, nmemb, &alloc_size)
BuiltinMulOverflow(size, nmemb) == size * nmemb > SIZE_MAX

\* (nmemb >= EN_NO_OVERFLOW || size >= EN_NO_OVERFLOW) && (SIZE_MAX / nmemb) < size
ManualMulOverflowOffByOne(size, nmemb) ==
  /\ (nmemb >= EN_NO_OVERFLOW \/ size >= EN_NO_OVERFLOW)
  /\ (SIZE_MAX \div nmemb) <= size
ManualMulOverflow(size, nmemb) ==
  /\ (nmemb >= EN_NO_OVERFLOW \/ size >= EN_NO_OVERFLOW)
  /\ (SIZE_MAX \div nmemb) < size

\* the #if defined(EN_MUL_OVERFLOW) ... #else ... #endif of ennewa_ and enrealloc_
MulOverflow(bi, size, nmemb) ==
  IF bi THEN BuiltinMulOverflow(size, nmemb) ELSE ManualMulOverflow(size, nmemb)

\* ---- the raw allocator ----

\* the allocator state a facade call starts from, with an empty call record
Cur ==
  [live |-> live, bsize |-> bsize, dup |-> dup, errno |-> errno,
   aborted |-> aborted, builtin |-> builtin,
   mallocs |-> 0, callocs |-> 0, reallocs |-> 0,
   frees |-> <<>>, reqs |-> <<>>, dblfree |-> FALSE,
   rawerrno |-> errno, rawret |-> NULL]

Out(st, ret) == [st |-> st, ret |-> ret]

\* the outcomes of a raw allocation call, with what the raw allocator left
\* behind noted: its return value and the errno it returned with
Raw(outs) ==
  {Out([o.st EXCEPT !.rawerrno = o.st.errno, !.rawret = o.ret], o.ret) : o \in outs}

\* free(p): free(NULL) does nothing; a free of a block that is not live is
\* undefined: the allocator aborts, or its free list now holds p twice
EN_FREE(st, p) ==
  IF st.aborted THEN {st}
  ELSE LET called == [st EXCEPT !.frees = Append(@, p), !.rawerrno = st.errno] IN
    IF p = NULL THEN {called}
    ELSE IF p \in st.live
      THEN {[called EXCEPT !.live = @ \ {p}, !.bsize[p] = 0]}
      ELSE {[called EXCEPT !.dblfree = TRUE, !.aborted = TRUE],
            [called EXCEPT !.dblfree = TRUE, !.dup = @ \cup {p}]}

\* a fresh block of n bytes: NULL with errno = ENOMEM, an address that is not
\* live, or (after a double free) an address the free list holds twice
NewBlock(st, n) ==
  {Out([st EXCEPT !.errno = ENOMEM], NULL)}
  \cup {Out([st EXCEPT !.live = @ \cup {a}, !.bsize[a] = n], a) :
          a \in Addr \ st.live}
  \cup {Out([st EXCEPT !.bsize[a] = n, !.dup = @ \ {a}], a) :
          a \in st.dup \cap st.live}

\* malloc(n)
EN_MALLOC(st, n) ==
  IF st.aborted THEN {Out(st, NULL)}
  ELSE Raw(NewBlock([st EXCEPT !.mallocs = @ + 1, !.reqs = Append(@, n)], n))

\* calloc(nmemb, size): checks the product itself; a request of zero bytes
\* gives NULL or a block of size zero
EN_CALLOC(st, nmemb, size) ==
  IF st.aborted THEN {Out(st, NULL)}
  ELSE LET called == [st EXCEPT !.callocs = @ + 1, !.reqs = Append(@, nmemb * size)] IN
    Raw(IF nmemb * size > SIZE_MAX
          THEN {Out([called EXCEPT !.errno = ENOMEM], NULL)}
          ELSE NewBlock(called, nmemb * size))

\* realloc(p, n): malloc(n) when p is NULL; on failure the block is untouched;
\* on success the block is resized in place or moved; undefined when p is
\* not live
EN_REALLOC(st, p, n) ==
  IF st.aborted THEN {Out(st, NULL)}
  ELSE LET called == [st EXCEPT !.reallocs = @ + 1, !.reqs = Append(@, n)] IN
    Raw(IF p = NULL THEN NewBlock(called, n)
        ELSE IF p \in st.live
          THEN {Out([called EXCEPT !.errno = ENOMEM], NULL)}
               \cup {Out([called EXCEPT !.bsize[p] = n], p)}
               \cup {Out([called EXCEPT !.live = (@ \ {p}) \cup {a},
                                        !.bsize[p] = 0, !.bsize[a] = n], a) :
                       a \in Addr \ st.live}
          ELSE {Out([called EXCEPT !.aborted = TRUE], NULL),
                Out([called EXCEPT !.errno = ENOMEM], NULL),
                Out([called EXCEPT !.live = @ \cup {p}, !.bsize[p] = n], p)})

\* ---- the facade ----

\* #define enfree(ptr) (EN_FREE(ptr), NULL)
enfreeKeepsPtr(st, ptr) == {Out(s, ptr) : s \in EN_FREE(st, ptr)}
enfree(st, ptr) == {Out(s, NULL) : s \in EN_FREE(st, ptr)}

\* #define ennew(T) ((T*) EN_MALLOC(sizeof(T)))
ennew(st, T) == EN_MALLOC(st, T)

\* #define ennew0(T) ((T*) EN_CALLOC(1, sizeof(T)))
ennew0(st, T) == EN_CALLOC(st, 1, T)

\* static void* ennewa_(size_t size, size_t nmemb)
ennewa_NoCheck(st, size, nmemb) ==
  IF nmemb = 0 THEN {Out(st, NULL)}
  ELSE EN_MALLOC(st, WrapMul(size, nmemb))
ennewa_ZeroIsError(st, size, nmemb) ==
  IF nmemb = 0 \/ MulOverflow(st.builtin, size, nmemb)
    THEN {Out([st EXCEPT !.errno = ENOMEM], NULL)}
    ELSE EN_MALLOC(st, WrapMul(size, nmemb))
ennewa_(st, size, nmemb) ==
  IF nmemb = 0 THEN {Out(st, NULL)}
  ELSE IF MulOverflow(st.builtin, size, nmemb)
    THEN {Out([st EXCEPT !.errno = ENOMEM], NULL)}
    ELSE EN_MALLOC(st, WrapMul(size, nmemb))

\* #define ennewa(T, nmemb) ((T*) ennewa_(sizeof(T), nmemb))
ennewa(st, T, nmemb) == ennewa_(st, T, nmemb)

\* #define ennewa0(T, nmemb) ((T*) EN_CALLOC(nmemb, sizeof(T)))
ennewa0ViaEnnewa(st, T, nmemb) == ennewa_(st, T, nmemb)
ennewa0(st, T, nmemb) == EN_CALLOC(st, nmemb, T)

\* static void* enrealloc_(void* ptr, size_t size, size_t nmemb)
enrealloc_FreeOnFail(st, ptr, size, nmemb) ==
  IF nmemb = 0 THEN enfree(st, ptr)
  ELSE IF MulOverflow(st.builtin, size, nmemb)
    THEN {Out([st EXCEPT !.errno = ENOMEM], NULL)}
    ELSE UNION {IF o.ret = NULL
                  THEN {Out(s, NULL) : s \in EN_FREE(o.st, ptr)}
                  ELSE {o} :
                o \in EN_REALLOC(st, ptr, WrapMul(size, nmemb))}
enrealloc_FreeOnOverflow(st, ptr, size, nmemb) ==
  IF nmemb = 0 THEN enfree(st, ptr)
  ELSE IF MulOverflow(st.builtin, size, nmemb)
    THEN {Out(s, NULL) : s \in EN_FREE([st EXCEPT !.errno = ENOMEM], ptr)}
    ELSE EN_REALLOC(st, ptr, WrapMul(size, nmemb))
enrealloc_SizeOnly(st, ptr, size, nmemb) ==
  IF nmemb = 0 THEN enfree(st, ptr)
  ELSE IF MulOverflow(st.builtin, size, nmemb)
    THEN {Out([st EXCEPT !.errno = ENOMEM], NULL)}
    ELSE EN_REALLOC(st, ptr, size)
enrealloc_ZeroToRealloc(st, ptr, size, nmemb) ==
  IF nmemb # 0 /\ MulOverflow(st.builtin, size, nmemb)
    THEN {Out([st EXCEPT !.errno = ENOMEM], NULL)}
    ELSE EN_REALLOC(st, ptr, WrapMul(size, nmemb))
enrealloc_(st, ptr, size, nmemb) ==
  IF nmemb = 0 THEN enfree(st, ptr)
  ELSE IF MulOverflow(st.builtin, size, nmemb)
    THEN {Out([st EXCEPT !.errno = ENOMEM], NULL)}
    ELSE EN_REALLOC(st, ptr, WrapMul(size, nmemb))

\* #define enrealloc(ptr, T, nmemb) ((T*) enrealloc_(ptr, sizeof(T), nmemb))
enrealloc(st, ptr, T, nmemb) == enrealloc_(st, ptr, T, nmemb)

\* static void* enresize_(void* ptr, size_t size, size_t nmemb)
enresize_NoFree(st, ptr, size, nmemb) == enrealloc_(st, ptr, size, nmemb)
enresize_SetsErrno(st, ptr, size, nmemb) ==
  UNION {IF o.ret = NULL
           THEN {Out([s EXCEPT !.errno = ENOMEM], o.ret) : s \in EN_FREE(o.st, ptr)}
           ELSE {o} :
         o \in enrealloc_(st, ptr, size, nmemb)}
enresize_(st, ptr, size, nmemb) ==
  UNION {IF o.ret = NULL
           THEN {Out(s, o.ret) : s \in EN_FREE(o.st, ptr)}
           ELSE {o} :
         o \in enrealloc_(st, ptr, size, nmemb)}

\* #define enresize(ptr, T, nmemb) ((T*) enresize_(ptr, sizeof(T), nmemb))
enresize(st, ptr, T, nmemb) == enresize_(st, ptr, T, nmemb)

\* ---- the caller ----

NoCall ==
  [op |-> "none", h |-> 1, ptr |-> NULL, size |-> 0, nmemb |-> 0, ret |-> NULL,
   mallocs |-> 0, callocs |-> 0, reallocs |-> 0, frees |-> <<>>, reqs |-> <<>>,
   dblfree |-> FALSE, valid |-> TRUE, rawerrno |-> 0, rawret |-> NULL]

\* the call has returned o and the caller stores hv in its variable h; valid
\* says that ptr was NULL or a live block when the call was made
Return(op, h, ptr, size, nmemb, o, hv) ==
  /\ live' = o.st.live
  /\ bsize' = o.st.bsize
  /\ dup' = o.st.dup
  /\ errno' = o.st.errno
  /\ aborted' = o.st.aborted
  /\ handle' = [handle EXCEPT ![h] = IF o.st.aborted THEN @ ELSE hv]
  /\ last' = [op |-> op, h |-> h, ptr |-> ptr, size |-> size, nmemb |-> nmemb,
              ret |-> o.ret, mallocs |-> o.st.mallocs, callocs |-> o.st.callocs,
              reallocs |-> o.st.reallocs, frees |-> o.st.frees, reqs |-> o.st.reqs,
              dblfree |-> o.st.dblfree,
              rawerrno |-> o.st.rawerrno, rawret |-> o.st.rawret,
              valid |-> (ptr = NULL \/ ptr \in live)]
  /\ UNCHANGED builtin

InitHeap ==
  /\ live = {}
  /\ bsize = [a \in Addr |-> 0]
  /\ dup = {}
  /\ errno = 0
  /\ aborted = FALSE
  /\ handle = [h \in Handles |-> NULL]

Init ==
  /\ builtin \in BOOLEAN
  /\ InitHeap
  /\ last = NoCall

\* x = ennew(int);
CallEnnew(h, T) ==
  /\ ~aborted /\ handle[h] = NULL
  /\ \E o \in ennew(Cur, T) : Return("ennew", h, NULL, T, 1, o, o.ret)

\* x = ennew0(int);
CallEnnew0(h, T) ==
  /\ ~aborted /\ handle[h] = NULL
  /\ \E o \in ennew0(Cur, T) : Return("ennew0", h, NULL, T, 1, o, o.ret)

\* x = ennewa(int, nmemb);
CallEnnewa(h, T, nmemb) ==
  /\ ~aborted /\ handle[h] = NULL
  /\ \E o \in ennewa(Cur, T, nmemb) : Return("ennewa", h, NULL, T, nmemb, o, o.ret)

\* x = ennewa0(int, nmemb);
CallEnnewa0(h, T, nmemb) ==
  /\ ~aborted /\ handle[h] = NULL
  /\ \E o \in ennewa0(Cur, T, nmemb) : Return("ennewa0", h, NULL, T, nmemb, o, o.ret)

\* x = enrealloc(x, int, nmemb); with x == NULL, or to shrink x to nothing
CallEnrealloc(h, T, nmemb) ==
  /\ ~aborted /\ (handle[h] = NULL \/ nmemb = 0)
  /\ \E o \in enrealloc(Cur, handle[h], T, nmemb) :
       Return("enrealloc", h, handle[h], T, nmemb, o, o.ret)

\* y = enrealloc(x, int, nmemb); if (y != NULL) x = y;
CallEnreallocKeep(h, T, nmemb) ==
  /\ ~aborted /\ handle[h] # NULL /\ nmemb > 0
  /\ \E o \in enrealloc(Cur, handle[h], T, nmemb) :
       Return("enrealloc", h, handle[h], T, nmemb, o,
              IF o.ret # NULL THEN o.ret ELSE handle[h])

\* x = enresize(x, int, nmemb);
CallEnresize(h, T, nmemb) ==
  /\ ~aborted
  /\ \E o \in enresize(Cur, handle[h], T, nmemb) :
       Return("enresize", h, handle[h], T, nmemb, o, o.ret)

\* x = enfree(x);
CallEnfree(h) ==
  /\ ~aborted
  /\ \E o \in enfree(Cur, handle[h]) :
       Return("enfree", h, handle[h], 0, 0, o, o.ret)

\* errno = 0;
ClearErrno ==
  /\ ~aborted /\ errno # 0
  /\ errno' = 0
  /\ last' = [NoCall EXCEPT !.op = "errno = 0"]
  /\ UNCHANGED <<builtin, live, bsize, dup, aborted, handle>>

Next ==
  \/ \E h \in Handles, T \in TypeSizes : CallEnnew(h, T)
  \/ \E h \in Handles, T \in TypeSizes : CallEnnew0(h, T)
  \/ \E h \in Handles, T \in TypeSizes : \E n \in Counts(T) : CallEnnewa(h, T, n)
  \/ \E h \in Handles, T \in TypeSizes : \E n \in Counts(T) : CallEnnewa0(h, T, n)
  \/ \E h \in Handles, T \in TypeSizes : \E n \in Counts(T) : CallEnrealloc(h, T, n)
  \/ \E h \in Handles, T \in TypeSizes : \E n \in Counts(T) : CallEnreallocKeep(h, T, n)
  \/ \E h \in Handles, T \in TypeSizes : \E n \in Counts(T) : CallEnresize(h, T, n)
  \/ \E h \in Handles : CallEnfree(h)
  \/ ClearErrno

Spec == Init /\ [][Next]_vars

\* ---- the caller that never uses enrealloc ----

NextResize ==
  \/ \E h \in Handles, T \in TypeSizes : CallEnnew(h, T)
  \/ \E h \in Handles, T \in TypeSizes : CallEnnew0(h, T)
  \/ \E h \in Handles, T \in TypeSizes : \E n \in Counts(T) : CallEnnewa(h, T, n)
  \/ \E h \in Handles, T \in TypeSizes : \E n \in Counts(T) : CallEnnewa0(h, T, n)
  \/ \E h \in Handles, T \in TypeSizes : \E n \in Counts(T) : CallEnresize(h, T, n)
  \/ \E h \in Handles : CallEnfree(h)
  \/ ClearErrno

SpecResize == Init /\ [][NextResize]_vars

\* ---- the size computation alone, on every pair of size_t values ----

InitMul ==
  /\ builtin = FALSE
  /\ InitHeap
  /\ \E size \in SizeT, nmemb \in SizeT :
       last = [NoCall EXCEPT !.op = "request", !.size = size, !.nmemb = nmemb]

\* ennewa_(size, nmemb)
MulEnnewa ==
  /\ last.op = "request"
  /\ \E o \in ennewa_(Cur, last.size, last.nmemb) :
       Return("ennewa_", 1, NULL, last.size, last.nmemb, o, o.ret)

\* enrealloc_(NULL, size, nmemb)
MulEnrealloc ==
  /\ last.op = "request"
  /\ \E o \in enrealloc_(Cur, NULL, last.size, last.nmemb) :
       Return("enrealloc_", 1, NULL, last.size, last.nmemb, o, o.ret)

NextMul == MulEnnewa \/ MulEnrealloc

SpecMul == InitMul /\ [][NextMul]_vars

\* ---- claims ----

Product == last.size * last.nmemb
NoRawCall ==
  /\ last.mallocs = 0 /\ last.callocs = 0 /\ last.reallocs = 0
  /\ last.frees = <<>> /\ last.reqs = <<>>

\* C1: for every pair (size, nmemb) of size_t values with nmemb > 0, the
\* manual check of ennewa_ and enrealloc_ reports overflow (NULL, errno =
\* ENOMEM, no raw call) exactly when the mathematical product size * nmemb
\* exceeds SIZE_MAX, and otherwise passes exactly size * nmemb to the raw
\* allocator.
C1_ManualCheckExact ==
  (last.op \in {"ennewa_", "enrealloc_"} /\ last.nmemb > 0) =>
    IF Product > SIZE_MAX
      THEN NoRawCall /\ last.ret = NULL /\ errno = ENOMEM
      ELSE /\ last.reqs = <<Product>>
           /\ last.mallocs + last.reallocs = 1
           /\ (last.ret # NULL => bsize[last.ret] = Product)

\* the boundary nmemb = SIZE_MAX / size + 1 with only nmemb >= EN_NO_OVERFLOW
C1_Witness ==
  /\ last.op = "ennewa_"
  /\ last.size > 1 /\ last.size < EN_NO_OVERFLOW
  /\ last.nmemb >= EN_NO_OVERFLOW
  /\ last.nmemb = (SIZE_MAX \div last.size) + 1
  /\ NoRawCall /\ last.ret = NULL /\ errno = ENOMEM

\* C2: when sizeof(T) * count exceeds SIZE_MAX (count > 0), ennewa and
\* enrealloc return NULL with errno = ENOMEM and make no raw allocator call.
C2_OverflowBeforeRawCall ==
  (last.op \in {"ennewa", "enrealloc"} /\ last.nmemb > 0 /\ Product > SIZE_MAX) =>
    last.ret = NULL /\ errno = ENOMEM /\ NoRawCall

C2_Witness ==
  /\ last.op = "ennewa" /\ last.nmemb = (SIZE_MAX \div last.size) + 1
  /\ Product > SIZE_MAX
  /\ last.ret = NULL /\ errno = ENOMEM /\ NoRawCall

\* C3: ennewa(T, 0) returns NULL, makes no raw allocator call and leaves
\* errno as it was; for a count > 0 that does not overflow ennewa makes
\* exactly one raw malloc call (and no other raw call).
C3_EnnewaRawCalls ==
  [][last'.op = "ennewa" =>
       IF last'.nmemb = 0
         THEN /\ last'.ret = NULL
              /\ last'.mallocs = 0 /\ last'.callocs = 0 /\ last'.reallocs = 0
              /\ last'.frees = <<>>
              /\ errno' = errno
         ELSE (last'.size * last'.nmemb <= SIZE_MAX) =>
                /\ last'.mallocs = 1 /\ last'.callocs = 0 /\ last'.reallocs = 0
                /\ last'.frees = <<>>]_vars

\* ennewa(T, 0) while errno is 0 and the other handle holds a block
C3_Witness ==
  /\ last.op = "ennewa" /\ last.nmemb = 0 /\ last.ret = NULL
  /\ errno = 0 /\ live # {}

\* C4: no block is passed to the raw deallocator twice; enresize(existing,
\* T, 0) on a live block releases it exactly once and returns NULL.
C4_FreedAtMostOnce ==
  /\ ~last.dblfree
  /\ (last.op = "enresize" /\ last.nmemb = 0 /\ last.ptr # NULL /\ last.valid) =>
       last.frees = <<last.ptr>> /\ last.ret = NULL

\* C5: whenever enresize(existing, T, count) with count > 0 returns NULL,
\* for overflow or for a failed raw realloc, existing has been passed to the
\* raw deallocator exactly once and is no longer live.
C5_ResizeFailureFrees ==
  (last.op = "enresize" /\ last.nmemb > 0 /\ last.ret = NULL /\ last.valid) =>
    /\ last.frees = <<last.ptr>>
    /\ ~last.dblfree
    /\ last.ptr \notin live

\* enresize of a live block to an overflowing count (enmem.c:100)
C5_Witness ==
  /\ last.op = "enresize" /\ last.nmemb > 0 /\ last.ret = NULL
  /\ last.ptr # NULL /\ last.valid /\ Product > SIZE_MAX
  /\ last.frees = <<last.ptr>>

C8_ReallocZeroFrees ==
  (last.op = "enrealloc" /\ last.nmemb = 0 /\ last.valid) =>
    /\ last.frees = <<last.ptr>>
    /\ ~last.dblfree
    /\ last.reallocs = 0 /\ last.mallocs = 0 /\ last.callocs = 0
    /\ last.ret = NULL
    /\ last.ptr \notin live

C8_Witness ==
  /\ last.op = "enrealloc" /\ last.nmemb = 0 /\ last.valid
  /\ last.ptr # NULL /\ last.frees = <<last.ptr>> /\ last.ret = NULL

\* C9: enfree(ptr) evaluates to NULL and passes ptr to the raw deallocator
\* exactly once, for ptr a live block or NULL; after p = enfree(p) the handle
\* p is NULL and the block is no longer live.
C9_EnfreeNull ==
  (last.op = "enfree" /\ last.valid) =>
    /\ last.ret = NULL
    /\ last.frees = <<last.ptr>>
    /\ ~last.dblfree
    /\ handle[last.h] = NULL
    /\ last.ptr \notin live

C9_Witness ==
  /\ last.op = "enfree" /\ last.valid /\ last.ptr # NULL
  /\ handle[last.h] = NULL /\ last.ptr \notin live

\* C10: with a caller that uses only ennew, ennew0, ennewa, ennewa0, enresize
\* and enfree and assigns every result back to the handle, after every
\* operation every live block is referenced by a handle (no leak) and every
\* non-NULL handle refers to a live block (no dangling handle).
C10_NoLeakNoDangling ==
  ~aborted =>
    /\ \A a \in live : \E h \in Handles : handle[h] = a
    /\ \A h \in Handles : handle[h] # NULL => handle[h] \in live

\* C11: a successful ennewa, enrealloc or enresize leaves the block it
\* returns live with a byte size of exactly sizeof(T) * count (the true
\* product) and changes the size of no other live block; a failed enrealloc
\* leaves the size of the existing block at its previous value.
C11_BlockSizeIsProduct ==
  [][(last'.op \in {"ennewa", "enrealloc", "enresize"} /\ last'.valid) =>
       IF last'.ret # NULL
         THEN /\ last'.ret \in live'
              /\ bsize'[last'.ret] = last'.size * last'.nmemb
              /\ last'.size * last'.nmemb <= SIZE_MAX
              /\ \A a \in live' \ {last'.ret} : bsize'[a] = bsize[a]
         ELSE (last'.op = "enrealloc" /\ last'.nmemb > 0 /\ last'.ptr # NULL) =>
                /\ last'.ptr \in live'
                /\ \A a \in live' : bsize'[a] = bsize[a]]_vars

\* enrealloc has grown a live block to the largest array that fits, while
\* the other handle holds a block of another size
C11_Witness ==
  /\ last.op = "enrealloc" /\ last.valid /\ last.ptr # NULL
  /\ last.ret # NULL
  /\ last.nmemb = SIZE_MAX \div last.size /\ last.nmemb > 1
  /\ bsize[last.ret] = Product
  /\ \E a \in live \ {last.ret} : bsize[a] # Product

\* C12: the facade writes errno only on its own overflow path, where it sets
\* ENOMEM; on every other path of ennewa, enrealloc, enresize and enfree the
\* errno the caller sees after the call is the value the raw allocator left
\* (the value at entry when no raw call was made), also when the raw
\* allocator failed.
C12_ErrnoFromRawAllocator ==
  last.op \in {"ennewa", "enrealloc", "enresize", "enfree"} =>
    IF last.nmemb > 0 /\ Product > SIZE_MAX
      THEN errno = ENOMEM
      ELSE errno = last.rawerrno

\* the raw realloc failed inside enresize, which then freed the block
C12_Witness ==
  /\ last.op = "enresize" /\ last.nmemb > 0 /\ Product <= SIZE_MAX
  /\ last.ptr # NULL /\ last.valid
  /\ last.reallocs = 1 /\ last.ret = NULL /\ last.frees = <<last.ptr>>
  /\ errno = ENOMEM /\ last.rawerrno = ENOMEM

\* C13: ennewa0(T, nmemb) bypasses the checked path of ennewa: for every
\* nmemb, zero and overflowing counts included, it makes exactly one raw
\* calloc(nmemb, sizeof(T)) call and no other raw call, does not write errno
\* itself and returns what calloc returned; overflow is reported only by
\* calloc.
C13_Ennewa0IsCalloc ==
  last.op = "ennewa0" =>
    /\ last.callocs = 1 /\ last.mallocs = 0 /\ last.reallocs = 0
    /\ last.frees = <<>>
    /\ last.reqs = <<Product>>
    /\ last.ret = last.rawret
    /\ errno = last.rawerrno

\* ennewa0(T, 0) has returned a block, where ennewa(T, 0) returns NULL
C13_Witness ==
  /\ last.op = "ennewa0" /\ last.nmemb = 0
  /\ last.callocs = 1 /\ last.ret # NULL /\ last.ret \in live

====
